---- MODULE Spec2Model ----
(***************************************************************************)
(* The order lifecycle and cart-to-order transaction of garden_backend:    *)
(* product stock, per-user carts, orders and their status machine, and the *)
(* request handlers that read and write them.  Handlers that await the     *)
(* database between a read and a later write (createOrder, cancelOrder,    *)
(* updateOrderStatus) are modelled one database access per step.           *)
(***************************************************************************)
EXTENDS Integers, Sequences, FiniteSets, TLC

VARIABLES products, carts, orders, reqs, last, ops, stockAtStart

vars == <<products, carts, orders, reqs, last, ops, stockAtStart>>

(* ------------------------------ bounds -------------------------------- *)

MaxStock == 2
MaxQty == 2
MaxOps == 5

(* ------------------------- program constants --------------------------- *)

MaxPerItem == 10
ShippingCost == 150
Tax == 0

(* ------------------------------ domains -------------------------------- *)

Products == {"A", "B"}
Users == {"u1", "u2", "adm"}
Reqs == {"r1", "r2"}
Notes == {"", "changed my mind"}

\* the role isAuth loads with the user; adm is the administrator
Role(u) == IF u = "adm" THEN "admin" ELSE "user"

Statuses == {"pending", "confirmed", "processing", "shipped", "delivered", "cancelled"}
StatusInputs == Statuses \cup {"", "refunded"}

AddressFields == {"fullName", "street", "city", "state", "zipCode", "phone"}
FullAddress == [present |-> TRUE, fields |-> [f \in AddressFields |-> "x"]]
NoPhoneAddress == [present |-> TRUE, fields |-> [f \in AddressFields |-> IF f = "phone" THEN "" ELSE "x"]]
NoAddress == [present |-> FALSE, fields |-> [f \in AddressFields |-> ""]]
AddressInputs == {FullAddress, NoPhoneAddress, NoAddress}

(* ------------------------------ helpers -------------------------------- *)

RECURSIVE SumQuantity(_)
SumQuantity(items) ==
  IF items = <<>> THEN 0 ELSE Head(items).quantity + SumQuantity(Tail(items))

RECURSIVE SumAmount(_)
SumAmount(items) ==
  IF items = <<>> THEN 0
  ELSE Head(items).price * Head(items).quantity + SumAmount(Tail(items))

RECURSIVE SumTotal(_)
SumTotal(items) ==
  IF items = <<>> THEN 0 ELSE Head(items).total + SumTotal(Tail(items))

IndexOf(items, p) ==
  IF \E i \in 1..Len(items) : items[i].product = p
  THEN CHOOSE i \in 1..Len(items) :
         /\ items[i].product = p
         /\ \A j \in 1..(i - 1) : items[j].product # p
  ELSE 0

RemoveAt(s, i) == SubSeq(s, 1, i - 1) \o SubSeq(s, i + 1, Len(s))

\* validateRequiredFields: a field is missing when it is falsy or a blank string
MissingFields(body, fields) == {f \in fields : body[f] = ""}

UNSET == "<unset>"

\* a / b as the exact quotient, kept unreduced
Quotient(a, b) == [num |-> a, den |-> b]

NoRatings == [average |-> Quotient(0, 1), count |-> 0]

NoProduct ==
  [exists |-> FALSE, name |-> "", stock |-> 0, price |-> 0, isAvailable |-> FALSE,
   overridden |-> FALSE, reviews |-> <<>>, ratings |-> NoRatings]

EmptyCart == [exists |-> TRUE, items |-> <<>>, totalItems |-> 0, totalPrice |-> 0]
NoCart == [exists |-> FALSE, items |-> <<>>, totalItems |-> 0, totalPrice |-> 0]

NoOrder ==
  [user |-> "u1", items |-> <<>>, orderStatus |-> "pending",
   payStatus |-> "pending", payAmount |-> 0, paidAt |-> FALSE,
   shippedAt |-> FALSE, deliveredAt |-> FALSE, cancelledAt |-> FALSE,
   cancellationReason |-> UNSET, expectedDelivery |-> FALSE, tracking |-> "none",
   subtotal |-> 0, shippingCost |-> 0, tax |-> 0, totalAmount |-> 0, totalItems |-> 0]

OrderFields == DOMAIN NoOrder

Idle == [op |-> "idle", pc |-> "idle", user |-> "u1", oid |-> 0, i |-> 0,
         doc |-> NoOrder, orig |-> NoOrder, cartItems |-> <<>>]

Response(op, kind, u, oid) == [op |-> op, kind |-> kind, user |-> u, oid |-> oid]

(* ------------------------------ Cart model ------------------------------ *)

cartPreSaveStale(cart) == cart

\* cartSchema.pre("save"): totals are recomputed from the lines
cartPreSave(cart) ==
  [cart EXCEPT !.totalItems = SumQuantity(cart.items),
               !.totalPrice = SumAmount(cart.items)]

addItemUnlimited(cart, productId, quantity, price) ==
  LET idx == IndexOf(cart.items, productId) IN
  IF idx > 0
  THEN [err |-> "none", cart |-> [cart EXCEPT !.items[idx].quantity = @ + quantity]]
  ELSE [err |-> "none",
        cart |-> [cart EXCEPT !.items =
                    Append(@, [product |-> productId, quantity |-> quantity,
                               price |-> price])]]

addItemAppend(cart, productId, quantity, price) ==
  [err |-> "none",
   cart |-> [cart EXCEPT !.items =
               Append(@, [product |-> productId, quantity |-> quantity,
                          price |-> price])]]

addItem(cart, productId, quantity, price) ==
  LET idx == IndexOf(cart.items, productId) IN
  IF idx > 0
  THEN LET newQuantity == cart.items[idx].quantity + quantity IN
       IF newQuantity > MaxPerItem
       THEN [err |-> "LimitExceeded", cart |-> cart]
       ELSE [err |-> "none",
             cart |-> [cart EXCEPT !.items[idx].quantity = newQuantity]]
  ELSE [err |-> "none",
        cart |-> [cart EXCEPT !.items =
                    Append(@, [product |-> productId, quantity |-> quantity,
                               price |-> price])]]

updateItemQuantityLenient(cart, productId, quantity) ==
  LET idx == IndexOf(cart.items, productId) IN
  IF idx > 0
  THEN IF quantity <= 0
       THEN [err |-> "none", cart |-> [cart EXCEPT !.items = RemoveAt(@, idx)]]
       ELSE IF quantity > MaxPerItem
            THEN [err |-> "LimitExceeded", cart |-> cart]
            ELSE [err |-> "none",
                  cart |-> [cart EXCEPT !.items[idx].quantity = quantity]]
  ELSE [err |-> "none", cart |-> cart]

updateItemQuantity(cart, productId, quantity) ==
  LET idx == IndexOf(cart.items, productId) IN
  IF idx > 0
  THEN IF quantity <= 0
       THEN [err |-> "none", cart |-> [cart EXCEPT !.items = RemoveAt(@, idx)]]
       ELSE IF quantity > MaxPerItem
            THEN [err |-> "LimitExceeded", cart |-> cart]
            ELSE [err |-> "none",
                  cart |-> [cart EXCEPT !.items[idx].quantity = quantity]]
  ELSE [err |-> "NotFound", cart |-> cart]

removeItem(cart, productId) ==
  [cart EXCEPT !.items = SelectSeq(@, LAMBDA it : it.product # productId)]

clearCart(cart) ==
  [cart EXCEPT !.items = <<>>, !.totalPrice = 0, !.totalItems = 0]

(* ------------------------------ Order model ----------------------------- *)

validTransitionsLoose(s) ==
  CASE s = "pending" -> {"confirmed", "cancelled"}
    [] s = "confirmed" -> {"processing", "cancelled"}
    [] s = "processing" -> {"shipped", "cancelled"}
    [] s = "shipped" -> {"delivered", "cancelled"}
    [] s = "delivered" -> {}
    [] s = "cancelled" -> {}

validTransitions(s) ==
  CASE s = "pending" -> {"confirmed", "cancelled"}
    [] s = "confirmed" -> {"processing", "cancelled"}
    [] s = "processing" -> {"shipped", "cancelled"}
    [] s = "shipped" -> {"delivered"}
    [] s = "delivered" -> {}
    [] s = "cancelled" -> {}

updateStatusPaidEarly(order, newStatus, notes) ==
  IF newStatus \notin validTransitions(order.orderStatus)
  THEN [err |-> "InvalidTransition", doc |-> order]
  ELSE [err |-> "none",
        doc |->
          CASE newStatus = "confirmed" ->
                 [order EXCEPT !.orderStatus = newStatus, !.payStatus = "paid", !.paidAt = TRUE]
            [] newStatus = "shipped" ->
                 [order EXCEPT !.orderStatus = newStatus, !.shippedAt = TRUE]
            [] newStatus = "delivered" ->
                 [order EXCEPT !.orderStatus = newStatus, !.deliveredAt = TRUE,
                               !.payStatus = "paid", !.paidAt = TRUE]
            [] newStatus = "cancelled" ->
                 [order EXCEPT !.orderStatus = newStatus, !.cancelledAt = TRUE,
                               !.cancellationReason = notes]
            [] OTHER -> [order EXCEPT !.orderStatus = newStatus]]

updateStatusBare(order, newStatus, notes) ==
  IF newStatus \notin validTransitions(order.orderStatus)
  THEN [err |-> "InvalidTransition", doc |-> order]
  ELSE [err |-> "none", doc |-> [order EXCEPT !.orderStatus = newStatus]]

\* orderSchema.methods.updateStatus: err "InvalidTransition" stands for the throw
updateStatus(order, newStatus, notes) ==
  IF newStatus \notin validTransitions(order.orderStatus)
  THEN [err |-> "InvalidTransition", doc |-> order]
  ELSE [err |-> "none",
        doc |->
          CASE newStatus = "shipped" ->
                 [order EXCEPT !.orderStatus = newStatus, !.shippedAt = TRUE]
            [] newStatus = "delivered" ->
                 [order EXCEPT !.orderStatus = newStatus, !.deliveredAt = TRUE,
                               !.payStatus = "paid", !.paidAt = TRUE]
            [] newStatus = "cancelled" ->
                 [order EXCEPT !.orderStatus = newStatus, !.cancelledAt = TRUE,
                               !.cancellationReason = notes]
            [] OTHER -> [order EXCEPT !.orderStatus = newStatus]]

\* orderSchema.pre("save"): expected delivery is stamped on a confirmed order
orderPreSave(doc) ==
  IF ~doc.expectedDelivery /\ doc.orderStatus = "confirmed"
  THEN [doc EXCEPT !.expectedDelivery = TRUE]
  ELSE doc

\* document.save(): the paths changed since the load are written over the stored document
saveOrder(stored, orig, doc) ==
  LET d == orderPreSave(doc) IN
  [f \in OrderFields |-> IF d[f] # orig[f] THEN d[f] ELSE stored[f]]

getRefundAmountAlways(order) ==
  IF order.orderStatus = "cancelled" /\ order.payStatus = "paid"
  THEN order.totalAmount
  ELSE 0

getRefundAmount(order) ==
  IF order.orderStatus = "cancelled" /\ order.payStatus = "paid"
  THEN IF order.shippedAt THEN 0 ELSE order.totalAmount
  ELSE 0

(* ----------------------------- Product store ---------------------------- *)

incStockGuarded(prods, p, delta) ==
  IF prods[p].exists /\ prods[p].stock + delta >= 0
  THEN [prods EXCEPT ![p].stock = @ + delta]
  ELSE prods

\* Product.findByIdAndUpdate(id, {$inc: {stock: delta}}): nothing happens for a missing id
incStock(prods, p, delta) ==
  IF prods[p].exists
  THEN [prods EXCEPT ![p].stock = @ + delta]
  ELSE prods

(* ---------------------------- Cart handlers ----------------------------- *)

\* Cart.findOne({user}) or Cart.create({user, items: []})
findOrCreateCart(u) == IF carts[u].exists THEN carts[u] ELSE EmptyCart

\* the response of addToCart and the cart it leaves stored
addToCartOutcome(u, productId, quantity) ==
  LET product == products[productId]
      cart == findOrCreateCart(u)
      res == addItem(cart, productId, quantity, product.price)
  IN
  IF quantity < 1 \/ quantity > MaxPerItem
  THEN [kind |-> "ValidationError", cart |-> carts[u]]
  ELSE IF ~product.exists
  THEN [kind |-> "NotFound", cart |-> carts[u]]
  ELSE IF ~product.isAvailable
  THEN [kind |-> "ProductUnavailable", cart |-> carts[u]]
  ELSE IF product.stock < quantity
  THEN [kind |-> "InsufficientStock", cart |-> carts[u]]
  ELSE IF res.err # "none"
  THEN [kind |-> res.err, cart |-> cart]
  ELSE [kind |-> "ok", cart |-> cartPreSave(res.cart)]

addToCart(u, productId, quantity) ==
  /\ carts' = [carts EXCEPT ![u] = addToCartOutcome(u, productId, quantity).cart]
  /\ UNCHANGED <<products, orders, reqs>>

updateCartItemOutcome(u, productId, quantity) ==
  LET product == products[productId]
      cart == carts[u]
      res == updateItemQuantity(cart, productId, quantity)
  IN
  IF quantity = 0
  THEN [kind |-> "ValidationError", cart |-> cart]
  ELSE IF quantity < 0 \/ quantity > MaxPerItem
  THEN [kind |-> "ValidationError", cart |-> cart]
  ELSE IF ~cart.exists
  THEN [kind |-> "NotFound", cart |-> cart]
  ELSE IF quantity > 0 /\ ~product.exists
  THEN [kind |-> "NotFound", cart |-> cart]
  ELSE IF quantity > 0 /\ ~product.isAvailable
  THEN [kind |-> "ProductUnavailable", cart |-> cart]
  ELSE IF quantity > 0 /\ product.stock < quantity
  THEN [kind |-> "InsufficientStock", cart |-> cart]
  ELSE IF res.err # "none"
  THEN [kind |-> res.err, cart |-> cart]
  ELSE [kind |-> "ok", cart |-> cartPreSave(res.cart)]

updateCartItem(u, productId, quantity) ==
  /\ carts' = [carts EXCEPT ![u] = updateCartItemOutcome(u, productId, quantity).cart]
  /\ UNCHANGED <<products, orders, reqs>>

removeCartItemOutcome(u, productId) ==
  IF ~carts[u].exists
  THEN [kind |-> "NotFound", cart |-> carts[u]]
  ELSE [kind |-> "ok", cart |-> cartPreSave(removeItem(carts[u], productId))]

removeCartItem(u, productId) ==
  /\ carts' = [carts EXCEPT ![u] = removeCartItemOutcome(u, productId).cart]
  /\ UNCHANGED <<products, orders, reqs>>

\* getCart: the cart is created when missing; lines whose product is gone or
\* unavailable are purged, and the cart is saved only when some line was purged
getCartOutcome(u) ==
  LET cart == findOrCreateCart(u)
      availableItems == SelectSeq(cart.items,
                          LAMBDA it : products[it.product].exists
                                        /\ products[it.product].isAvailable)
  IN
  IF Len(availableItems) # Len(cart.items)
  THEN [kind |-> "ok", cart |-> cartPreSave([cart EXCEPT !.items = availableItems])]
  ELSE [kind |-> "ok", cart |-> cart]

getCart(u) ==
  /\ carts' = [carts EXCEPT ![u] = getCartOutcome(u).cart]
  /\ UNCHANGED <<products, orders, reqs>>

\* the clearCart handler of the cart routes
clearCartOutcome(u) ==
  IF ~carts[u].exists
  THEN [kind |-> "NotFound", cart |-> carts[u]]
  ELSE [kind |-> "ok", cart |-> cartPreSave(clearCart(carts[u]))]

clearCartRequest(u) ==
  /\ carts' = [carts EXCEPT ![u] = clearCartOutcome(u).cart]
  /\ UNCHANGED <<products, orders, reqs>>

\* the schema validators cart.save() runs on the lines: quantity in 1..10, price >= 0
cartValid(cart) ==
  \A i \in 1..Len(cart.items) :
    /\ cart.items[i].quantity >= 1
    /\ cart.items[i].quantity <= MaxPerItem
    /\ cart.items[i].price >= 0

Issue(type, product) == [type |-> type, product |-> product]

validateLineQuiet(st, i) ==
  LET item == st.items[i]
      doc == products[item.product]
  IN
  IF ~doc.exists \/ ~doc.isAvailable \/ doc.stock = 0
  THEN [st EXCEPT !.items = RemoveAt(@, i), !.cartUpdated = TRUE,
                  !.issues = Append(@, Issue("product_removed", item.product))]
  ELSE IF doc.stock < item.quantity
  THEN [st EXCEPT !.items[i].quantity = doc.stock, !.items[i].price = doc.price,
                  !.cartUpdated = TRUE,
                  !.issues = Append(@, Issue("quantity_reduced", item.product))]
  ELSE [st EXCEPT !.items[i].price = doc.price, !.cartUpdated = TRUE]

\* one turn of the loop of validateCart on line i.  `item` is the line the turn
\* started with; after an out_of_stock splice the turn goes on to the price
\* check, where cart.items[i] is the line that followed the removed one, or
\* nothing at all (a TypeError) when the removed line was the last
validateLine(st, i) ==
  LET item == st.items[i]
      doc == products[item.product]
      afterStock ==
        IF doc.stock < item.quantity
        THEN IF doc.stock = 0
             THEN [st EXCEPT !.items = RemoveAt(@, i), !.cartUpdated = TRUE,
                             !.issues = Append(@, Issue("out_of_stock", item.product))]
             ELSE [st EXCEPT !.items[i].quantity = doc.stock, !.cartUpdated = TRUE,
                             !.issues = Append(@, Issue("quantity_reduced", item.product))]
        ELSE st
  IN
  IF st.thrown THEN st
  ELSE IF ~doc.exists
  THEN [st EXCEPT !.items = RemoveAt(@, i), !.cartUpdated = TRUE,
                  !.issues = Append(@, Issue("product_removed", item.product))]
  ELSE IF ~doc.isAvailable
  THEN [st EXCEPT !.items = RemoveAt(@, i), !.cartUpdated = TRUE,
                  !.issues = Append(@, Issue("product_unavailable", item.product))]
  ELSE IF item.price # doc.price
  THEN IF i > Len(afterStock.items)
       THEN [afterStock EXCEPT !.thrown = TRUE]
       ELSE [afterStock EXCEPT !.items[i].price = doc.price, !.cartUpdated = TRUE,
                               !.issues = Append(@, Issue("price_changed", item.product))]
  ELSE afterStock

\* the loop of validateCart, from the last line down to the first
RECURSIVE validateLines(_, _)
validateLines(st, i) ==
  IF i = 0 THEN st ELSE validateLines(validateLine(st, i), i - 1)

\* validateCart: the response (isValid, issues) and the cart it leaves stored
validateCartOn(cart) ==
  LET st == validateLines([items |-> cart.items, issues |-> <<>>,
                           cartUpdated |-> FALSE, thrown |-> FALSE], Len(cart.items))
      updated == [cart EXCEPT !.items = st.items]
  IN
  IF ~cart.exists \/ Len(cart.items) = 0
  THEN [kind |-> "ok", isValid |-> TRUE, issues |-> <<>>, cart |-> cart]
  ELSE IF st.thrown \/ (st.cartUpdated /\ ~cartValid(updated))
  THEN [kind |-> "InternalError", isValid |-> FALSE, issues |-> <<>>, cart |-> cart]
  ELSE [kind |-> "ok", isValid |-> st.issues = <<>>, issues |-> st.issues,
        cart |-> IF st.cartUpdated THEN cartPreSave(updated) ELSE cart]

validateCartOutcome(u) == validateCartOn(carts[u])

validateCart(u) ==
  /\ carts' = [carts EXCEPT ![u] = validateCartOutcome(u).cart]
  /\ UNCHANGED <<products, orders, reqs>>

(* --------------------------- Product handlers --------------------------- *)

newStockOfSum(product, operation, stock) ==
  IF operation = "set" THEN stock ELSE product.stock + stock

newStockOf(product, operation, stock) ==
  IF operation = "add" THEN product.stock + stock
  ELSE IF operation = "subtract" THEN product.stock - stock
  ELSE stock

updateProductStockOutcomeUnchecked(p, operation, stock) ==
  LET product == products[p]
      newStock == newStockOf(product, operation, stock)
  IN
  IF ~product.exists
  THEN [kind |-> "NotFound", product |-> product]
  ELSE [kind |-> "ok",
        product |-> [product EXCEPT !.stock = newStock, !.isAvailable = newStock > 0]]

updateProductStockOutcome(p, operation, stock) ==
  LET product == products[p]
      newStock == newStockOf(product, operation, stock)
  IN
  IF ~product.exists
  THEN [kind |-> "NotFound", product |-> product]
  ELSE IF newStock < 0
  THEN [kind |-> "NegativeStock", product |-> product]
  ELSE [kind |-> "ok",
        product |-> [product EXCEPT !.stock = newStock, !.isAvailable = newStock > 0]]

updateProductStock(p, operation, stock) ==
  /\ products' = [products EXCEPT ![p] = updateProductStockOutcome(p, operation, stock).product]
  /\ UNCHANGED <<carts, orders, reqs>>

\* updateProduct with an isAvailable field in the body: the flag is stored as given
updateProductOutcome(p, avail) ==
  IF ~products[p].exists
  THEN [kind |-> "NotFound", product |-> products[p]]
  ELSE [kind |-> "ok",
        product |-> [products[p] EXCEPT !.isAvailable = avail, !.overridden = TRUE]]

updateProduct(p, avail) ==
  /\ products' = [products EXCEPT ![p] = updateProductOutcome(p, avail).product]
  /\ UNCHANGED <<carts, orders, reqs>>

deleteProductOutcome(p) ==
  IF ~products[p].exists
  THEN [kind |-> "NotFound", product |-> products[p]]
  ELSE [kind |-> "ok", product |-> NoProduct]

deleteProduct(p) ==
  /\ products' = [products EXCEPT ![p] = deleteProductOutcome(p).product]
  /\ UNCHANGED <<carts, orders, reqs>>

\* updateProduct with price and name in the body: findByIdAndUpdate with
\* runValidators, which refuses a negative price
updateProductEditOutcome(p, price, name) ==
  IF ~products[p].exists
  THEN [kind |-> "NotFound", product |-> products[p]]
  ELSE IF price < 0
  THEN [kind |-> "InternalError", product |-> products[p]]
  ELSE [kind |-> "ok", product |-> [products[p] EXCEPT !.price = price, !.name = name]]

updateProductEditCascade(p, price, name) ==
  /\ products' = [products EXCEPT ![p] = updateProductEditOutcome(p, price, name).product]
  /\ orders' = [k \in 1..Len(orders) |->
                  [orders[k] EXCEPT !.items =
                     [i \in 1..Len(orders[k].items) |->
                        IF orders[k].items[i].product = p /\ products'[p].exists
                        THEN [orders[k].items[i] EXCEPT !.price = products'[p].price,
                                                        !.name = products'[p].name]
                        ELSE orders[k].items[i]]]]
  /\ UNCHANGED <<carts, reqs>>

updateProductEdit(p, price, name) ==
  /\ products' = [products EXCEPT ![p] = updateProductEditOutcome(p, price, name).product]
  /\ UNCHANGED <<carts, orders, reqs>>

RECURSIVE SumRating(_)
SumRating(reviews) ==
  IF reviews = <<>> THEN 0 ELSE Head(reviews).rating + SumRating(Tail(reviews))

\* productSchema.methods.updateRatings
updateRatings(product) ==
  IF Len(product.reviews) > 0
  THEN [product EXCEPT
          !.ratings = [average |-> Quotient(SumRating(product.reviews), Len(product.reviews)),
                       count |-> Len(product.reviews)]]
  ELSE [product EXCEPT !.ratings = NoRatings]

\* a rating arrives in half stars: halves = 9 is the rating 4.5
parseInt(halves) == halves \div 2

addProductReviewOutcomeRepeat(u, p, halves) ==
  LET product == products[p] IN
  IF halves = 0
  THEN [kind |-> "ValidationError", product |-> product]
  ELSE IF halves < 2 \/ halves > 10
  THEN [kind |-> "ValidationError", product |-> product]
  ELSE IF ~product.exists
  THEN [kind |-> "NotFound", product |-> product]
  ELSE [kind |-> "ok",
        product |-> updateRatings([product EXCEPT
                      !.reviews = Append(@, [user |-> u, rating |-> parseInt(halves)])])]

\* the response of addProductReview and the product it leaves stored
addProductReviewOutcome(u, p, halves) ==
  LET product == products[p] IN
  IF halves = 0
  THEN [kind |-> "ValidationError", product |-> product]
  ELSE IF halves < 2 \/ halves > 10
  THEN [kind |-> "ValidationError", product |-> product]
  ELSE IF ~product.exists
  THEN [kind |-> "NotFound", product |-> product]
  ELSE IF \E i \in 1..Len(product.reviews) : product.reviews[i].user = u
  THEN [kind |-> "DuplicateReview", product |-> product]
  ELSE [kind |-> "ok",
        product |-> updateRatings([product EXCEPT
                      !.reviews = Append(@, [user |-> u, rating |-> parseInt(halves)])])]

addProductReview(u, p, halves) ==
  /\ products' = [products EXCEPT ![p] = addProductReviewOutcome(u, p, halves).product]
  /\ UNCHANGED <<carts, orders, reqs>>

(* ---------------------------- Order handlers ---------------------------- *)

\* the cart lines with their product documents, as populate() returns them
populate(items) ==
  [i \in 1..Len(items) |->
     [product |-> items[i].product, quantity |-> items[i].quantity,
      price |-> items[i].price, doc |-> products[items[i].product]]]

lineErrorNoStock(line) ==
  IF ~line.doc.exists \/ ~line.doc.isAvailable THEN "ProductUnavailable"
  ELSE "none"

lineError(line) ==
  IF ~line.doc.exists \/ ~line.doc.isAvailable THEN "ProductUnavailable"
  ELSE IF line.doc.stock < line.quantity THEN "InsufficientStock"
  ELSE "none"

\* the validation loop of createOrder: the error of the first failing line
cartError(lines) ==
  IF \E i \in 1..Len(lines) : lineError(lines[i]) # "none"
  THEN lineError(lines[CHOOSE i \in 1..Len(lines) :
                         /\ lineError(lines[i]) # "none"
                         /\ \A j \in 1..(i - 1) : lineError(lines[j]) = "none"])
  ELSE "none"

orderItemSnapshot(line) ==
  [product |-> line.product, name |-> line.doc.name, quantity |-> line.quantity,
   price |-> line.price, total |-> line.price * line.quantity]

orderItem(line) ==
  [product |-> line.product, name |-> line.doc.name, quantity |-> line.quantity,
   price |-> line.doc.price, total |-> line.doc.price * line.quantity]

orderData(u, cart, lines) ==
  LET orderItems == [i \in 1..Len(lines) |-> orderItem(lines[i])]
      subtotal == SumTotal(orderItems)
      totalAmount == subtotal + ShippingCost + Tax
  IN [NoOrder EXCEPT !.user = u, !.items = orderItems,
                     !.payStatus = "pending", !.payAmount = totalAmount,
                     !.subtotal = subtotal, !.shippingCost = ShippingCost,
                     !.tax = Tax, !.totalAmount = totalAmount,
                     !.totalItems = cart.totalItems]

createOrderErrorLocked(u, address) ==
  IF ~address.present THEN "ValidationError"
  ELSE IF MissingFields(address.fields, AddressFields) # {} THEN "ValidationError"
  ELSE IF \E r \in Reqs : reqs[r].op = "createOrder" /\ reqs[r].user = u THEN "Conflict"
  ELSE IF ~carts[u].exists \/ Len(carts[u].items) = 0 THEN "EmptyCart"
  ELSE cartError(populate(carts[u].items))

\* the error createOrder answers with before it writes anything, "none" when it goes on
createOrderError(u, address) ==
  IF ~address.present THEN "ValidationError"
  ELSE IF MissingFields(address.fields, AddressFields) # {} THEN "ValidationError"
  ELSE IF ~carts[u].exists \/ Len(carts[u].items) = 0 THEN "EmptyCart"
  ELSE cartError(populate(carts[u].items))

\* createOrder up to the end of its validation loop
createOrderCheck(r, u, address) ==
  /\ reqs[r].pc = "idle"
  /\ IF createOrderError(u, address) # "none"
     THEN reqs' = reqs
     ELSE reqs' = [reqs EXCEPT ![r] =
                     [Idle EXCEPT !.op = "createOrder", !.pc = "create", !.user = u,
                                  !.doc = orderData(u, carts[u], populate(carts[u].items)),
                                  !.cartItems = carts[u].items]]
  /\ UNCHANGED <<products, carts, orders>>

\* Order.create(orderData); a rejected write ends the request with the generic error
createOrderPersist(r, dbOk) ==
  /\ reqs[r].op = "createOrder" /\ reqs[r].pc = "create"
  /\ IF dbOk
     THEN /\ orders' = Append(orders, reqs[r].doc)
          /\ reqs' = [reqs EXCEPT ![r].pc = "stock", ![r].i = 1,
                                  ![r].oid = Len(orders) + 1]
     ELSE /\ orders' = orders
          /\ reqs' = [reqs EXCEPT ![r] = Idle]
  /\ UNCHANGED <<products, carts>>

createOrderStockOne(r) ==
  LET item == reqs[r].cartItems[reqs[r].i] IN
  /\ reqs[r].op = "createOrder" /\ reqs[r].pc = "stock"
  /\ products' = incStock(products, item.product, -1)
  /\ reqs' = IF reqs[r].i < Len(reqs[r].cartItems)
             THEN [reqs EXCEPT ![r].i = @ + 1]
             ELSE [reqs EXCEPT ![r].pc = "clear"]
  /\ UNCHANGED <<carts, orders>>

\* one turn of the stock loop of createOrder
createOrderStock(r) ==
  LET item == reqs[r].cartItems[reqs[r].i] IN
  /\ reqs[r].op = "createOrder" /\ reqs[r].pc = "stock"
  /\ products' = incStock(products, item.product, -item.quantity)
  /\ reqs' = IF reqs[r].i < Len(reqs[r].cartItems)
             THEN [reqs EXCEPT ![r].i = @ + 1]
             ELSE [reqs EXCEPT ![r].pc = "clear"]
  /\ UNCHANGED <<carts, orders>>

\* cart.clearCart(); cart.save(); the response
createOrderClear(r) ==
  /\ reqs[r].op = "createOrder" /\ reqs[r].pc = "clear"
  /\ carts' = [carts EXCEPT ![reqs[r].user] =
                 cartPreSave(clearCart([EmptyCart EXCEPT !.items = reqs[r].cartItems]))]
  /\ reqs' = [reqs EXCEPT ![r] = Idle]
  /\ UNCHANGED <<products, orders>>

createOrderStockRollback(r) ==
  /\ reqs[r].op = "createOrder" /\ reqs[r].pc = "stock"
  /\ reqs' = [reqs EXCEPT ![r] = Idle]
  /\ orders' = SubSeq(orders, 1, reqs[r].oid - 1)
  /\ products' = [p \in Products |->
                    [products[p] EXCEPT !.stock =
                       @ + SumQuantity(SelectSeq(SubSeq(reqs[r].cartItems, 1, reqs[r].i - 1),
                                                 LAMBDA it : it.product = p))]]
  /\ UNCHANGED carts

\* a Product.findByIdAndUpdate of the stock loop that rejects: the handler throws,
\* asyncHandler passes the error on and nothing done so far is undone
createOrderStockFail(r) ==
  /\ reqs[r].op = "createOrder" /\ reqs[r].pc = "stock"
  /\ reqs' = [reqs EXCEPT ![r] = Idle]
  /\ UNCHANGED <<products, carts, orders>>

\* cart.save() of a cart document that another request has saved since this one
\* loaded it: the stale write may be refused, and the request ends with the
\* generic error, its order and its decrements in place
createOrderClearRejected(r) ==
  /\ reqs[r].op = "createOrder" /\ reqs[r].pc = "clear"
  /\ carts[reqs[r].user].items # reqs[r].cartItems
  /\ reqs' = [reqs EXCEPT ![r] = Idle]
  /\ UNCHANGED <<products, carts, orders>>

getOrderByIdKind(u, oid) ==
  IF oid > Len(orders) THEN "NotFound"
  ELSE IF Role(u) # "admin" /\ orders[oid].user # u THEN "AccessDenied"
  ELSE "ok"

getOrderById(u, oid) == UNCHANGED <<products, carts, orders, reqs>>

cancelOrderErrorLate(u, oid, reason) ==
  IF oid > Len(orders) THEN "NotFound"
  ELSE IF orders[oid].user # u THEN "AccessDenied"
  ELSE IF orders[oid].orderStatus \notin {"pending", "confirmed", "processing"}
  THEN "CannotCancel"
  ELSE IF updateStatus(orders[oid], "cancelled", reason).err # "none" THEN "InternalError"
  ELSE "none"

cancelOrderErrorAdmin(u, oid, reason) ==
  IF oid > Len(orders) THEN "NotFound"
  ELSE IF Role(u) # "admin" /\ orders[oid].user # u THEN "AccessDenied"
  ELSE IF orders[oid].orderStatus \notin {"pending", "confirmed"} THEN "CannotCancel"
  ELSE IF updateStatus(orders[oid], "cancelled", reason).err # "none" THEN "InternalError"
  ELSE "none"

\* the error cancelOrder answers with before it writes anything, "none" when it goes on
cancelOrderError(u, oid, reason) ==
  IF oid > Len(orders) THEN "NotFound"
  ELSE IF orders[oid].user # u THEN "AccessDenied"
  ELSE IF orders[oid].orderStatus \notin {"pending", "confirmed"} THEN "CannotCancel"
  ELSE IF updateStatus(orders[oid], "cancelled", reason).err # "none" THEN "InternalError"
  ELSE "none"

\* cancelOrder up to order.updateStatus("cancelled", reason)
cancelOrderCheck(r, u, oid, reason) ==
  /\ reqs[r].pc = "idle"
  /\ IF cancelOrderError(u, oid, reason) # "none"
     THEN reqs' = reqs
     ELSE reqs' = [reqs EXCEPT ![r] =
                     [Idle EXCEPT !.op = "cancelOrder", !.pc = "save", !.user = u,
                                  !.oid = oid, !.orig = orders[oid],
                                  !.doc = updateStatus(orders[oid], "cancelled", reason).doc]]
  /\ UNCHANGED <<products, carts, orders>>

\* order.save() in cancelOrder
cancelOrderSave(r) ==
  /\ reqs[r].op = "cancelOrder" /\ reqs[r].pc = "save"
  /\ orders' = [orders EXCEPT ![reqs[r].oid] = saveOrder(@, reqs[r].orig, reqs[r].doc)]
  /\ reqs' = [reqs EXCEPT ![r].pc = "restore", ![r].i = 1]
  /\ UNCHANGED <<products, carts>>

cancelOrderRestoreFirst(r) ==
  LET item == reqs[r].doc.items[1] IN
  /\ reqs[r].op = "cancelOrder" /\ reqs[r].pc = "restore"
  /\ products' = incStock(products, item.product, item.quantity)
  /\ reqs' = IF reqs[r].i < Len(reqs[r].doc.items)
             THEN [reqs EXCEPT ![r].i = @ + 1]
             ELSE [reqs EXCEPT ![r] = Idle]
  /\ UNCHANGED <<carts, orders>>

\* one turn of the stock restoring loop of cancelOrder, the response after the last
cancelOrderRestore(r) ==
  LET item == reqs[r].doc.items[reqs[r].i] IN
  /\ reqs[r].op = "cancelOrder" /\ reqs[r].pc = "restore"
  /\ products' = incStock(products, item.product, item.quantity)
  /\ reqs' = IF reqs[r].i < Len(reqs[r].doc.items)
             THEN [reqs EXCEPT ![r].i = @ + 1]
             ELSE [reqs EXCEPT ![r] = Idle]
  /\ UNCHANGED <<carts, orders>>

\* the error updateOrderStatus (behind isAdmin) answers with, "none" when it goes on to save
updateOrderStatusError(u, oid, status, notes) ==
  IF Role(u) # "admin" THEN "AccessDenied"
  ELSE IF status = "" THEN "ValidationError"
  ELSE IF oid > Len(orders) THEN "NotFound"
  ELSE updateStatus(orders[oid], status, notes).err

\* updateOrderStatus up to order.save()
updateOrderStatusCheck(r, u, oid, status, notes, tracking) ==
  /\ reqs[r].pc = "idle"
  /\ IF updateOrderStatusError(u, oid, status, notes) # "none"
     THEN reqs' = reqs
     ELSE reqs' = [reqs EXCEPT ![r] =
                     [Idle EXCEPT !.op = "updateOrderStatus", !.pc = "save",
                                  !.user = u, !.oid = oid, !.orig = orders[oid],
                                  !.doc = IF tracking
                                          THEN [updateStatus(orders[oid], status, notes).doc
                                                  EXCEPT !.tracking = status]
                                          ELSE updateStatus(orders[oid], status, notes).doc]]
  /\ UNCHANGED <<products, carts, orders>>

\* order.save() in updateOrderStatus and the response
updateOrderStatusSave(r) ==
  /\ reqs[r].op = "updateOrderStatus" /\ reqs[r].pc = "save"
  /\ orders' = [orders EXCEPT ![reqs[r].oid] = saveOrder(@, reqs[r].orig, reqs[r].doc)]
  /\ reqs' = [reqs EXCEPT ![r] = Idle]
  /\ UNCHANGED <<products, carts>>

(* ------------------------------ behaviours ------------------------------ *)

QtyInputs == 0..MaxQty
StockInputs == (-1)..MaxStock
OrderIds == 1..2

InitProduct(s, pr) ==
  [exists |-> TRUE, name |-> "fern", stock |-> s, price |-> pr, isAvailable |-> s > 0,
   overridden |-> FALSE, reviews |-> <<>>, ratings |-> NoRatings]

NoResponse == Response("none", "none", "u1", 0)

NoStock == [p \in Products |-> 0]
StockNow == [p \in Products |-> products[p].stock]

Quiet == \A r \in Reqs : reqs[r].pc = "idle"

\* the notes reach the order only as the reason of a cancellation
NotesFor(status) == IF status = "cancelled" THEN Notes ELSE {""}

LineQuantityOf(cart, p) ==
  IF IndexOf(cart.items, p) > 0 THEN cart.items[IndexOf(cart.items, p)].quantity ELSE 0

\* a request that has started runs to its response
Step(r) ==
  \/ \E dbOk \in BOOLEAN : createOrderPersist(r, dbOk)
  \/ createOrderStock(r)
  \/ createOrderClear(r)
  \/ cancelOrderSave(r)
  \/ cancelOrderRestore(r)
  \/ updateOrderStatusSave(r)

CartRequest(u) ==
  \/ \E p \in Products, q \in QtyInputs :
       /\ LineQuantityOf(carts[u], p) + q <= MaxQty
       /\ addToCart(u, p, q)
  \/ \E p \in Products, q \in QtyInputs : updateCartItem(u, p, q)
  \/ \E p \in Products : removeCartItem(u, p)

ProductRequest ==
  \/ \E p \in Products, op \in {"add", "subtract", "set"}, s \in StockInputs :
       /\ newStockOf(products[p], op, s) <= MaxStock
       /\ updateProductStock(p, op, s)
  \/ \E p \in Products, a \in BOOLEAN : updateProduct(p, a)
  \/ \E p \in Products : deleteProduct(p)

OrderRequest(r, u) ==
  \/ \E a \in AddressInputs : createOrderCheck(r, u, a)
  \/ \E o \in OrderIds, n \in Notes : cancelOrderCheck(r, u, o, n)
  \/ \E o \in OrderIds, s \in StatusInputs : \E n \in NotesFor(s) :
       updateOrderStatusCheck(r, "adm", o, s, n, FALSE)

(* The shop as one shopper and the administrator use it, one request at a   *)
(* time: a request starts when none is in flight.                           *)

Init ==
  /\ products \in [Products -> {InitProduct(s, 10) : s \in 1..MaxStock}]
  /\ carts = [u \in Users |-> NoCart]
  /\ orders = <<>>
  /\ reqs = [r \in Reqs |-> Idle]
  /\ last = NoResponse
  /\ ops = 0
  /\ stockAtStart = NoStock

Next ==
  \/ /\ Quiet
     /\ ops < MaxOps
     /\ ops' = ops + 1
     /\ CartRequest("u1") \/ ProductRequest \/ OrderRequest("r1", "u1")
     /\ UNCHANGED <<last, stockAtStart>>
  \/ Step("r1") /\ UNCHANGED <<last, ops, stockAtStart>>

Spec == Init /\ [][Next]_vars

(* One shopper's checkout and the life of the order, with every response    *)
(* recorded in `last` and the stock a request found in `stockAtStart`.      *)
(* The shop is found with any stock and any cart the cart handlers leave.   *)

RECURSIVE SeqsOver(_, _)
SeqsOver(S, n) ==
  IF n = 0 THEN {<<>>}
  ELSE LET shorter == SeqsOver(S, n - 1)
       IN shorter \cup {Append(q, x) : q \in shorter, x \in S}

InitLines ==
  {l \in SeqsOver([product : Products, quantity : 1..MaxQty, price : {10}],
                  Cardinality(Products)) :
     \A i, j \in 1..Len(l) : i # j => l[i].product # l[j].product}

InitCarts == {NoCart} \cup {cartPreSave([EmptyCart EXCEPT !.items = l]) : l \in InitLines}

InitOrders ==
  /\ products \in [Products -> {NoProduct} \cup {InitProduct(s, 10) : s \in 0..MaxStock}]
  /\ carts \in {[u \in Users |-> IF u = "u1" THEN c ELSE NoCart] : c \in InitCarts}
  /\ orders = <<>>
  /\ reqs = [r \in Reqs |-> Idle]
  /\ last = NoResponse
  /\ ops = 0
  /\ stockAtStart = NoStock

\* the first round of a handler, answered at once when it ends in an error
Answered(op, err, u, oid) ==
  IF err # "none"
  THEN last' = Response(op, err, u, oid) /\ stockAtStart' = stockAtStart
  ELSE last' = last /\ stockAtStart' = StockNow

ObservedRequest(r) ==
  \/ \E u \in Users, a \in AddressInputs :
       /\ createOrderCheck(r, u, a)
       /\ Answered("createOrder", createOrderError(u, a), u, 0)
  \/ \E u \in Users, o \in OrderIds, n \in Notes :
       /\ cancelOrderCheck(r, u, o, n)
       /\ Answered("cancelOrder", cancelOrderError(u, o, n), u, o)
  \/ \E u \in {"u1", "adm"}, o \in OrderIds, s \in StatusInputs : \E n \in NotesFor(s) :
       /\ updateOrderStatusCheck(r, u, o, s, n, FALSE)
       /\ Answered("updateOrderStatus", updateOrderStatusError(u, o, s, n), u, o)
  \/ \E u \in Users, o \in OrderIds :
       /\ getOrderById(u, o)
       /\ last' = Response("getOrderById", getOrderByIdKind(u, o), u, o)
       /\ stockAtStart' = stockAtStart

\* the later rounds of a request; the last one sends the response
ObservedStep(r) ==
  \/ createOrderPersist(r, TRUE) /\ UNCHANGED <<last, stockAtStart>>
  \/ /\ createOrderPersist(r, FALSE)
     /\ last' = Response("createOrder", "InternalError", reqs[r].user, 0)
     /\ stockAtStart' = NoStock
  \/ createOrderStock(r) /\ UNCHANGED <<last, stockAtStart>>
  \/ /\ createOrderClear(r)
     /\ last' = Response("createOrder", "ok", reqs[r].user, reqs[r].oid)
     /\ stockAtStart' = NoStock
  \/ cancelOrderSave(r) /\ UNCHANGED <<last, stockAtStart>>
  \/ /\ cancelOrderRestore(r)
     /\ IF reqs'[r].pc = "idle"
        THEN /\ last' = Response("cancelOrder", "ok", reqs[r].user, reqs[r].oid)
             /\ stockAtStart' = NoStock
        ELSE UNCHANGED <<last, stockAtStart>>
  \/ /\ updateOrderStatusSave(r)
     /\ last' = Response("updateOrderStatus", "ok", reqs[r].user, reqs[r].oid)
     /\ stockAtStart' = NoStock

NextOrders ==
  \/ Quiet /\ ObservedRequest("r1") /\ ops' = ops
  \/ ObservedStep("r1") /\ ops' = ops

SpecOrders == InitOrders /\ [][NextOrders]_vars

(* Two clients whose requests interleave at every database round: two       *)
(* shoppers with filled carts check out and cancel while the administrator  *)
(* cancels.                                                                 *)

ConcCarts ==
  {c \in InitCarts : Len(c.items) > 0 /\ c.items[1].product = "A"
                       /\ \A i \in 2..Len(c.items) : c.items[i].quantity = 1}

InitConc ==
  /\ products \in {[p \in Products |-> InitProduct(IF p = "A" THEN s ELSE MaxStock, 10)] :
                      s \in 1..MaxStock}
  /\ carts \in {[u \in Users |-> IF u = "u1" THEN c1 ELSE IF u = "u2" THEN c2 ELSE NoCart] :
                  c1 \in ConcCarts, c2 \in ConcCarts}
  /\ orders = <<>>
  /\ reqs = [r \in Reqs |-> Idle]
  /\ last = NoResponse
  /\ ops = 0
  /\ stockAtStart = NoStock

ConcRequest(r) ==
  \/ \E u \in {"u1", "u2"} : createOrderCheck(r, u, FullAddress)
  \/ \E u \in {"u1", "u2"}, o \in OrderIds : cancelOrderCheck(r, u, o, "")
  \/ \E o \in OrderIds : updateOrderStatusCheck(r, "adm", o, "cancelled", "", FALSE)

NextConc ==
  \E r \in Reqs :
    /\ ConcRequest(r) \/ Step(r) \/ createOrderClearRejected(r)
    /\ UNCHANGED <<last, ops, stockAtStart>>

SpecConc == InitConc /\ [][NextConc]_vars

(* One shopper's cart against a catalogue found in any state: every cart     *)
(* handler, and one checkout with a stock update that may fail, each        *)
(* response recorded in `last`.  Product A is found at either price, B at    *)
(* the price the cart lines carry.                                           *)

Prices == {10, 20}
CartQtys == {1, MaxQty, MaxPerItem}
CartQtyInputs == {-1, 0, 1, MaxQty, MaxPerItem + 1}

ProductStates ==
  {NoProduct} \cup
  {[InitProduct(s, pr) EXCEPT !.isAvailable = a, !.overridden = a # (s > 0)] :
     s \in 0..MaxStock, pr \in Prices, a \in BOOLEAN}

CartLines ==
  {l \in SeqsOver([product : Products, quantity : CartQtys, price : {10}],
                  Cardinality(Products)) :
     \A i, j \in 1..Len(l) : i # j => l[i].product # l[j].product}

InitCart ==
  /\ products \in {pp \in [Products -> ProductStates] :
                     pp["B"].exists => pp["B"].price = 10}
  /\ carts \in {[u \in Users |-> IF u = "u1" THEN c ELSE NoCart] :
                  c \in {NoCart} \cup {cartPreSave([EmptyCart EXCEPT !.items = l]) : l \in CartLines}}
  /\ orders = <<>>
  /\ reqs = [r \in Reqs |-> Idle]
  /\ last = NoResponse
  /\ ops = 0
  /\ stockAtStart = NoStock

validateCartKind(u) ==
  LET out == validateCartOutcome(u) IN
  IF out.kind # "ok" THEN out.kind ELSE IF out.isValid THEN "valid" ELSE "invalid"

ObservedCartRequest(u) ==
  \/ \E p \in Products, q \in CartQtyInputs :
       /\ addToCartOutcome(u, p, q).kind = "ok" => LineQuantityOf(carts[u], p) + q <= MaxQty
       /\ addToCart(u, p, q)
       /\ last' = Response("addToCart", addToCartOutcome(u, p, q).kind, u, 0)
  \/ \E p \in Products, q \in CartQtyInputs :
       /\ updateCartItem(u, p, q)
       /\ last' = Response("updateCartItem", updateCartItemOutcome(u, p, q).kind, u, 0)
  \/ \E p \in Products :
       /\ removeCartItem(u, p)
       /\ last' = Response("removeCartItem", removeCartItemOutcome(u, p).kind, u, 0)
  \/ /\ clearCartRequest(u)
     /\ last' = Response("clearCart", clearCartOutcome(u).kind, u, 0)
  \/ /\ getCart(u)
     /\ last' = Response("getCart", getCartOutcome(u).kind, u, 0)
  \/ /\ validateCart(u)
     /\ last' = Response("validateCart", validateCartKind(u), u, 0)

NextCart ==
  \/ Quiet /\ ObservedCartRequest("u1") /\ UNCHANGED <<ops, stockAtStart>>
  \/ /\ Quiet
     /\ orders = <<>>
     /\ createOrderCheck("r1", "u1", FullAddress)
     /\ Answered("createOrder", createOrderError("u1", FullAddress), "u1", 0)
     /\ ops' = ops
  \/ ObservedStep("r1") /\ ops' = ops
  \/ /\ createOrderStockFail("r1")
     /\ last' = Response("createOrder", "InternalError", reqs["r1"].user, reqs["r1"].oid)
     /\ stockAtStart' = NoStock
     /\ ops' = ops

SpecCart == InitCart /\ [][NextCart]_vars

(* One stored order found in any status, payment status and shipping state, *)
(* moved on by the administrator and asked for its refund amount.           *)

PayStatuses == {"pending", "paid", "failed", "refunded"}

RefundOrders ==
  {[NoOrder EXCEPT !.orderStatus = st, !.payStatus = pay, !.shippedAt = sh,
                   !.subtotal = sub, !.shippingCost = ShippingCost,
                   !.totalAmount = sub + ShippingCost, !.payAmount = sub + ShippingCost] :
     st \in Statuses, pay \in PayStatuses, sh \in BOOLEAN, sub \in Prices}

InitRefund ==
  /\ products \in [Products -> {InitProduct(MaxStock, 10)}]
  /\ carts = [u \in Users |-> NoCart]
  /\ orders \in {<<o>> : o \in RefundOrders}
  /\ reqs = [r \in Reqs |-> Idle]
  /\ last = NoResponse
  /\ ops = 0
  /\ stockAtStart = NoStock

\* order.getRefundAmount() read for a stored order
refundQuery(oid) ==
  /\ oid <= Len(orders)
  /\ last' = Response("getRefundAmount",
                      IF getRefundAmount(orders[oid]) > 0 THEN "refund" ELSE "none", "adm", oid)
  /\ UNCHANGED <<products, carts, orders, reqs, stockAtStart>>

NextRefund ==
  \/ Quiet /\ (\E o \in OrderIds : refundQuery(o)) /\ ops' = ops
  \/ /\ Quiet
     /\ \E s \in Statuses : \E n \in NotesFor(s) :
          /\ updateOrderStatusCheck("r1", "adm", 1, s, n, FALSE)
          /\ Answered("updateOrderStatus", updateOrderStatusError("adm", 1, s, n), "adm", 1)
     /\ ops' = ops
  \/ /\ updateOrderStatusSave("r1")
     /\ last' = Response("updateOrderStatus", "ok", reqs["r1"].user, reqs["r1"].oid)
     /\ stockAtStart' = NoStock
     /\ ops' = ops

SpecRefund == InitRefund /\ [][NextRefund]_vars

(* The catalogue under the administrator's edits after a checkout: one      *)
(* order is stored, the shopper goes on using the cart, and every response   *)
(* is recorded in `last`.                                                    *)

HistoryLines ==
  {l \in SeqsOver([product : Products, quantity : {1, MaxQty}, price : {10}],
                  Cardinality(Products)) :
     /\ l # <<>>
     /\ \A i, j \in 1..Len(l) : i # j => l[i].product # l[j].product}

Edits == {[price |-> 10, name |-> "fern"], [price |-> 20, name |-> "moss"],
          [price |-> -10, name |-> "fern"]}

InitCatalog ==
  /\ products \in [Products -> {InitProduct(s, 10) : s \in 0..MaxStock}]
  /\ carts = [u \in Users |-> IF u = "u1" THEN EmptyCart ELSE NoCart]
  /\ orders \in {<<orderData("u1", cartPreSave([EmptyCart EXCEPT !.items = l]), populate(l))>> :
                   l \in HistoryLines}
  /\ reqs = [r \in Reqs |-> Idle]
  /\ last = NoResponse
  /\ ops = 0
  /\ stockAtStart = NoStock

NextCatalog ==
  \/ /\ \E p \in Products, op \in {"add", "subtract", "set"}, s \in StockInputs :
          /\ newStockOf(products[p], op, s) <= MaxStock
          /\ updateProductStock(p, op, s)
          /\ last' = Response("updateProductStock", updateProductStockOutcome(p, op, s).kind, "adm", 0)
     /\ UNCHANGED <<ops, stockAtStart>>
  \/ /\ \E p \in Products, e \in Edits :
          /\ updateProductEdit(p, e.price, e.name)
          /\ last' = Response("updateProduct", updateProductEditOutcome(p, e.price, e.name).kind, "adm", 0)
     /\ UNCHANGED <<ops, stockAtStart>>
  \/ /\ \E p \in Products :
          /\ deleteProduct(p)
          /\ last' = Response("deleteProduct", deleteProductOutcome(p).kind, "adm", 0)
     /\ UNCHANGED <<ops, stockAtStart>>
  \/ /\ addToCart("u1", "A", 1)
     /\ addToCartOutcome("u1", "A", 1).kind = "ok" => LineQuantityOf(carts["u1"], "A") < MaxQty
     /\ last' = Response("addToCart", addToCartOutcome("u1", "A", 1).kind, "u1", 0)
     /\ UNCHANGED <<ops, stockAtStart>>
  \/ /\ updateCartItem("u1", "A", MaxQty)
     /\ last' = Response("updateCartItem", updateCartItemOutcome("u1", "A", MaxQty).kind, "u1", 0)
     /\ UNCHANGED <<ops, stockAtStart>>
  \/ /\ removeCartItem("u1", "A")
     /\ last' = Response("removeCartItem", removeCartItemOutcome("u1", "A").kind, "u1", 0)
     /\ UNCHANGED <<ops, stockAtStart>>
  \/ /\ clearCartRequest("u1")
     /\ last' = Response("clearCart", clearCartOutcome("u1").kind, "u1", 0)
     /\ UNCHANGED <<ops, stockAtStart>>

SpecCatalog == InitCatalog /\ [][NextCatalog]_vars

(* The reviews of one product: every user sends ratings, valid or not, and   *)
(* the administrator may delete the product.                                 *)

RatingInputs == {0, 1, 2, 9, 10, 11}

InitReviews ==
  /\ products = [p \in Products |-> IF p = "A" THEN InitProduct(MaxStock, 10) ELSE NoProduct]
  /\ carts = [u \in Users |-> NoCart]
  /\ orders = <<>>
  /\ reqs = [r \in Reqs |-> Idle]
  /\ last = NoResponse
  /\ ops = 0
  /\ stockAtStart = NoStock

NextReviews ==
  \/ /\ \E u \in Users, p \in Products, h \in RatingInputs :
          /\ addProductReview(u, p, h)
          /\ last' = Response("addProductReview", addProductReviewOutcome(u, p, h).kind, u, 0)
     /\ UNCHANGED <<ops, stockAtStart>>
  \/ /\ \E p \in Products :
          /\ deleteProduct(p)
          /\ last' = Response("deleteProduct", deleteProductOutcome(p).kind, "adm", 0)
     /\ UNCHANGED <<ops, stockAtStart>>

SpecReviews == InitReviews /\ [][NextReviews]_vars

(* Cancel requests racing on one stored order: the owner's cancelOrder and  *)
(* the administrator's updateOrderStatus to cancelled, two at a time,        *)
(* interleaved at every database round.  `stockAtStart` keeps the stock the  *)
(* first request could find.                                                 *)

InitCancel ==
  /\ products \in [Products -> {InitProduct(s, 10) : s \in 0..MaxStock}]
  /\ carts = [u \in Users |-> IF u = "u1" THEN EmptyCart ELSE NoCart]
  /\ orders \in {<<orderData("u1", cartPreSave([EmptyCart EXCEPT !.items = l]), populate(l))>> :
                   l \in HistoryLines}
  /\ reqs = [r \in Reqs |-> Idle]
  /\ last = NoResponse
  /\ ops = 0
  /\ stockAtStart = StockNow

NextCancel ==
  \E r \in Reqs :
    /\ \/ \E n \in Notes : cancelOrderCheck(r, "u1", 1, n)
       \/ updateOrderStatusCheck(r, "adm", 1, "cancelled", "", FALSE)
       \/ cancelOrderSave(r)
       \/ cancelOrderRestore(r)
       \/ updateOrderStatusSave(r)
    /\ UNCHANGED <<last, ops, stockAtStart>>

SpecCancel == InitCancel /\ [][NextCancel]_vars

(* The order handlers, one request at a time, over a catalogue whose every   *)
(* product starts with MaxStock units and is never edited.                   *)

InitLedger ==
  /\ products = [p \in Products |-> InitProduct(MaxStock, 10)]
  /\ carts \in {[u \in Users |-> IF u = "u1" THEN c ELSE NoCart] : c \in InitCarts}
  /\ orders = <<>>
  /\ reqs = [r \in Reqs |-> Idle]
  /\ last = NoResponse
  /\ ops = 0
  /\ stockAtStart = NoStock

SpecLedger == InitLedger /\ [][NextOrders]_vars

(* ------------------------------- claims --------------------------------- *)

\* the transition table of section 4.3 of the specification
SpecTable(st) ==
  IF st = "pending" THEN {"confirmed", "cancelled"}
  ELSE IF st = "confirmed" THEN {"processing", "cancelled"}
  ELSE IF st = "processing" THEN {"shipped", "cancelled"}
  ELSE IF st = "shipped" THEN {"delivered"}
  ELSE {}

RECURSIVE QtyIn(_, _)
QtyIn(items, p) ==
  IF items = <<>> THEN 0
  ELSE (IF Head(items).product = p THEN Head(items).quantity ELSE 0) + QtyIn(Tail(items), p)

\* the step in which request r sends its response after a database write
Responds(r, op) == reqs[r].op = op /\ reqs[r].pc # "idle" /\ reqs'[r].pc = "idle"

\* the step in which an (op, kind) response is recorded
Answers(op, kind) == last' # last /\ last'.op = op /\ last'.kind = kind

\* C1: the status of a stored order changes only along the transition table;
\* updateStatus accepts exactly the pairs of the table, and for every other
\* pair (a status outside the six included) it fails with InvalidTransition
\* and returns the order as it was; a rejected updateOrderStatus request leaves
\* the stored orders unchanged.
C1_Function ==
  /\ \A i \in 1..Len(orders), st \in StatusInputs, n \in Notes :
       LET res == updateStatus(orders[i], st, n) IN
       IF st \in SpecTable(orders[i].orderStatus)
       THEN res.err = "none" /\ res.doc.orderStatus = st
       ELSE res.err = "InvalidTransition" /\ res.doc = orders[i]
  /\ \A i \in 1..Len(orders), st \in StatusInputs \ {""}, n \in Notes :
       st \notin SpecTable(orders[i].orderStatus) =>
         updateOrderStatusError("adm", i, st, n) = "InvalidTransition"

C1_Step ==
  /\ \A i \in 1..Len(orders) :
       orders'[i].orderStatus # orders[i].orderStatus =>
         orders'[i].orderStatus \in SpecTable(orders[i].orderStatus)
  /\ Answers("updateOrderStatus", "InvalidTransition") => UNCHANGED <<orders, products, carts>>

C1_StatusTable == []C1_Function /\ [][C1_Step]_vars

C1_Witness ==
  /\ last = Response("updateOrderStatus", "InvalidTransition", "adm", 1)
  /\ Len(orders) = 1
  /\ orders[1].orderStatus = "shipped"

\* C2: whenever a request has moved an order to cancelled (cancelOrder by the
\* owner, or updateOrderStatus with status cancelled by the administrator), at
\* its response the stock of every product is the stock the request found plus
\* the quantity of that product in the order.
C2_Step ==
  \A r \in Reqs :
    /\ Responds(r, "cancelOrder") \/ Responds(r, "updateOrderStatus")
    /\ reqs[r].orig.orderStatus # "cancelled"
    /\ orders'[reqs[r].oid].orderStatus = "cancelled"
    => \A p \in Products :
         products'[p].exists =>
           products'[p].stock = stockAtStart[p] + QtyIn(orders'[reqs[r].oid].items, p)

C2_EveryCancelRestores == [][C2_Step]_vars

\* C3: createOrder answers with an error before any write exactly when the
\* address is missing or lacks a required field, the cart is missing or empty,
\* or some line's product is missing, unavailable or short of stock; the step
\* that answers so creates no order and changes no stock and no cart.
FailsValidation(u, address) ==
  \/ ~address.present
  \/ \E f \in AddressFields : address.fields[f] = ""
  \/ ~carts[u].exists
  \/ carts[u].items = <<>>
  \/ \E i \in 1..Len(carts[u].items) :
       LET line == carts[u].items[i] IN
       \/ ~products[line.product].exists
       \/ ~products[line.product].isAvailable
       \/ products[line.product].stock < line.quantity

CheckoutErrors == {"ValidationError", "EmptyCart", "ProductUnavailable", "InsufficientStock"}

C3_Function ==
  \A u \in Users, a \in AddressInputs :
    IF FailsValidation(u, a)
    THEN createOrderError(u, a) \in CheckoutErrors
    ELSE createOrderError(u, a) = "none"

C3_Step ==
  (last' # last /\ last'.op = "createOrder" /\ last'.kind \in CheckoutErrors)
    => UNCHANGED <<products, carts, orders>>

C3_AllOrNothing == []C3_Function /\ [][C3_Step]_vars

C3_Witness ==
  /\ last.op = "createOrder"
  /\ last.kind \in {"ProductUnavailable", "InsufficientStock"}
  /\ Len(carts["u1"].items) = 2
  /\ products[carts["u1"].items[1].product].stock >= carts["u1"].items[1].quantity
  /\ products[carts["u1"].items[2].product].stock = 0
  /\ orders = <<>>

\* C4: while a createOrder request is in flight its effects come in the order
\* persist, decrement, clear: before the order is persisted nothing has
\* changed; during the stock loop the order is stored and the cart is still
\* full; when the cart is cleared every decrement has been made.  At the
\* response one order was added, pending, with the cart's lines; every product
\* has the stock the request found less its quantity in the cart; the cart is
\* empty with totalItems = totalPrice = 0.
LinesOf(items) ==
  [i \in 1..Len(items) |-> [product |-> items[i].product, quantity |-> items[i].quantity]]

StockLess(items) ==
  [p \in Products |-> IF products[p].exists THEN stockAtStart[p] - QtyIn(items, p) ELSE 0]

C4_Order ==
  \A r \in Reqs :
    reqs[r].op = "createOrder" =>
      /\ reqs[r].pc = "create" =>
           /\ StockNow = stockAtStart
           /\ carts[reqs[r].user].items = reqs[r].cartItems
           /\ orders = <<>>
      /\ reqs[r].pc = "stock" =>
           /\ Len(orders) = reqs[r].oid
           /\ carts[reqs[r].user].items = reqs[r].cartItems
           /\ StockNow = StockLess(SubSeq(reqs[r].cartItems, 1, reqs[r].i - 1))
      /\ reqs[r].pc = "clear" =>
           /\ Len(orders) = reqs[r].oid
           /\ carts[reqs[r].user].items = reqs[r].cartItems
           /\ StockNow = StockLess(reqs[r].cartItems)

C4_Step ==
  \A r \in Reqs :
    /\ Responds(r, "createOrder") /\ reqs[r].pc = "clear" =>
         /\ Len(orders') = 1
         /\ orders'[1].orderStatus = "pending"
         /\ orders'[1].user = reqs[r].user
         /\ LinesOf(orders'[1].items) = LinesOf(carts[reqs[r].user].items)
         /\ [p \in Products |-> products'[p].stock] = StockLess(carts[reqs[r].user].items)
         /\ carts'[reqs[r].user].items = <<>>
         /\ carts'[reqs[r].user].totalItems = 0
         /\ carts'[reqs[r].user].totalPrice = 0
    /\ reqs[r].op = "createOrder" /\ Len(orders') # Len(orders) =>
         reqs[r].pc = "create" /\ Len(orders') = Len(orders) + 1

C4_Checkout == []C4_Order /\ [][C4_Step]_vars

C4_Witness ==
  /\ last = Response("createOrder", "ok", "u1", 1)
  /\ Len(orders[1].items) = 2
  /\ orders[1].items[1].quantity = 2
  /\ products[orders[1].items[1].product].stock = 0
  /\ carts["u1"] = EmptyCart

\* C5: with requests run one at a time, no product's stock is ever negative.
C5_StockNonNegative == \A p \in Products : products[p].stock >= 0

C5_Witness ==
  /\ Len(orders) = 1
  /\ orders[1].items[1].quantity = 2
  /\ products[orders[1].items[1].product].exists
  /\ products[orders[1].items[1].product].stock = 0
  /\ Quiet

\* C6: a createOrder request that has passed its stock check takes its line's
\* quantity off the stock whatever the stock has become meanwhile, so that two
\* interleaved checkouts of one product drive its stock below zero.
C6_Step ==
  \A r \in Reqs :
    (reqs[r].op = "createOrder" /\ reqs[r].pc = "stock" /\ reqs'[r] # reqs[r]) =>
      LET item == reqs[r].cartItems[reqs[r].i] IN
      products'[item.product].stock = products[item.product].stock - item.quantity

C6_Oversell == [][C6_Step]_vars

C6_Witness ==
  /\ products["A"].stock < 0
  /\ Len(orders) = 2
  /\ orders[1].user # orders[2].user
  /\ \A i \in 1..2 : orders[i].items[1].product = "A" /\ orders[i].orderStatus = "pending"
  /\ Quiet

\* C7: at the response of a successful cancelOrder, which its owner made on a
\* pending or confirmed order, every product in stock has the stock the
\* request found plus its quantity in the order (products not in the order:
\* the same stock).
C7_Step ==
  \A r \in Reqs :
    Responds(r, "cancelOrder") =>
      /\ reqs[r].orig.orderStatus \in {"pending", "confirmed"}
      /\ reqs[r].orig.user = reqs[r].user
      /\ \A p \in Products :
           products'[p].exists =>
             products'[p].stock = stockAtStart[p] + QtyIn(orders'[reqs[r].oid].items, p)

C7_CancelRestores == [][C7_Step]_vars

C7_Witness ==
  /\ last = Response("cancelOrder", "ok", "u1", 1)
  /\ orders[1].orderStatus = "cancelled"
  /\ orders[1].expectedDelivery
  /\ Len(orders[1].items) = 2
  /\ orders[1].items[1].quantity = 2
  /\ orders[1].items[2].quantity = 1
  /\ products[orders[1].items[1].product].stock = 2
  /\ products[orders[1].items[2].product].stock = 2

\* C8: the owner's cancelOrder goes through exactly while the order is pending
\* or confirmed; on a processing, shipped, delivered or cancelled order it is
\* refused and the refusal changes no order and no stock; the administrator's
\* updateOrderStatus is accepted for every transition of the table, processing
\* to cancelled included.
C8_Function ==
  \A i \in 1..Len(orders), n \in Notes :
    /\ cancelOrderError(orders[i].user, i, n) =
         (IF orders[i].orderStatus \in {"pending", "confirmed"} THEN "none" ELSE "CannotCancel")
    /\ \A st \in SpecTable(orders[i].orderStatus) :
         updateOrderStatusError("adm", i, st, n) = "none"

C8_Step ==
  /\ \A r \in Reqs :
       Responds(r, "cancelOrder") => reqs[r].orig.orderStatus \in {"pending", "confirmed"}
  /\ Answers("cancelOrder", "CannotCancel") =>
       /\ orders[last'.oid].orderStatus \in {"processing", "shipped", "delivered", "cancelled"}
       /\ UNCHANGED <<orders, products>>

C8_UserCancelWindow == []C8_Function /\ [][C8_Step]_vars

C8_Witness ==
  /\ last = Response("cancelOrder", "CannotCancel", "u1", 1)
  /\ orders[1].orderStatus = "processing"
  /\ orders[1].user = "u1"

\* C9 as claimed: a requester with role user is denied on an order of another
\* user, and a requester with role admin is never denied, by cancelOrder as by
\* getOrderById.
C9_AdminBypassesBoth ==
  (last.op \in {"cancelOrder", "getOrderById"} /\ last.oid <= Len(orders)) =>
    IF Role(last.user) = "admin"
    THEN last.kind # "AccessDenied"
    ELSE orders[last.oid].user # last.user => last.kind = "AccessDenied"

\* C9 amended: getOrderById denies exactly the requesters who are neither the
\* owner nor an administrator; cancelOrder denies every requester who is not
\* the owner, an administrator included; a denial changes no order and no
\* stock.
C9_Function ==
  \A u \in Users, i \in 1..Len(orders), n \in Notes :
    /\ getOrderByIdKind(u, i) = "AccessDenied" <=> (Role(u) # "admin" /\ orders[i].user # u)
    /\ cancelOrderError(u, i, n) = "AccessDenied" <=> orders[i].user # u

C9_Step ==
  (last' # last /\ last'.kind = "AccessDenied" /\ last'.op \in {"cancelOrder", "getOrderById"})
    => /\ UNCHANGED <<orders, products, carts>>
       /\ orders[last'.oid].user # last'.user
       /\ last'.op = "getOrderById" => Role(last'.user) # "admin"

C9_OwnershipChecks == []C9_Function /\ [][C9_Step]_vars

C9_Witness ==
  /\ last = Response("cancelOrder", "AccessDenied", "adm", 1)
  /\ orders[1].user = "u1"
  /\ orders[1].orderStatus = "pending"

\* C10: a product whose isAvailable flag no admin edit has set is available
\* exactly when it has stock.
C10_AvailabilityDerived ==
  \A p \in Products :
    (products[p].exists /\ ~products[p].overridden) =>
      (products[p].isAvailable <=> products[p].stock > 0)

IssueTypes(issues) == {issues[i].type : i \in 1..Len(issues)}

\* a cart line that agrees with the catalogue
LineCurrent(line) ==
  /\ products[line.product].exists
  /\ products[line.product].isAvailable
  /\ products[line.product].stock > 0
  /\ line.quantity <= products[line.product].stock
  /\ line.price = products[line.product].price

\* C11: when validateCart has answered on a non-empty cart, every line left in
\* the stored cart has a product that exists, is available and in stock, a
\* quantity within that stock and that product's current price; and a cart of
\* one deleted product and one product with less stock than the line's quantity
\* gives exactly the issues product_removed and quantity_reduced, with the one
\* line left clamped to the stock.
C11_Scenario ==
  LET cart == carts["u1"]
      out == validateCartOutcome("u1")
  IN
  \A i, j \in 1..Len(cart.items) :
    LET gone == products[cart.items[i].product]
        short == products[cart.items[j].product]
    IN
    (/\ Len(cart.items) = 2 /\ i # j
     /\ ~gone.exists
     /\ short.exists /\ short.isAvailable /\ short.price = cart.items[j].price
     /\ short.stock > 0 /\ short.stock < cart.items[j].quantity)
    => /\ out.kind = "ok" /\ ~out.isValid
       /\ Len(out.issues) = 2
       /\ IssueTypes(out.issues) = {"product_removed", "quantity_reduced"}
       /\ out.cart.items = <<[cart.items[j] EXCEPT !.quantity = short.stock]>>

C11_Step ==
  (last' # last /\ last'.op = "validateCart" /\ last'.kind \in {"valid", "invalid"}
     /\ carts["u1"].items # <<>>)
    => /\ products' = products
       /\ \A i \in 1..Len(carts'["u1"].items) : LineCurrent(carts'["u1"].items[i])

C11_ValidatedCartCurrent == []C11_Scenario /\ [][C11_Step]_vars

\* C12: validateCart answers isValid = true exactly when it lists no issue, and
\* it stores a changed cart only when it lists one: with no issue, and when it
\* fails, the stored cart is what it was.
C12_Function ==
  LET out == validateCartOutcome("u1") IN
  /\ out.isValid <=> (out.kind = "ok" /\ out.issues = <<>>)
  /\ out.cart # carts["u1"] => (out.kind = "ok" /\ out.issues # <<>>)

C12_Step ==
  /\ Answers("validateCart", "valid") => carts' = carts
  /\ (last'.op = "validateCart" /\ carts' # carts) => last'.kind = "invalid"

C12_ValidateFrame == []C12_Function /\ [][C12_Step]_vars

C12_Witness ==
  /\ last = Response("validateCart", "invalid", "u1", 0)
  /\ Len(carts["u1"].items) = 2
  /\ carts["u1"].items[1].price = 20
  /\ carts["u1"].items[2].quantity = 1
  /\ carts["u1"].totalItems = 1 + carts["u1"].items[1].quantity

\* C13: addItem of a product that has a line of quantity q, asking for q2:
\* when q + q2 <= 10 the product keeps its single line, now of quantity q + q2
\* at the price it had, the other lines untouched; when q + q2 > 10 it fails
\* with LimitExceeded and the cart is as it was.  The same through addToCart.
C13_Function ==
  LET cart == carts["u1"] IN
  \A idx \in 1..Len(cart.items), q2 \in 1..MaxPerItem, pr \in Prices :
    LET line == cart.items[idx]
        res == addItem(cart, line.product, q2, pr)
    IN
    IF line.quantity + q2 <= MaxPerItem
    THEN /\ res.err = "none"
         /\ res.cart.items = [cart.items EXCEPT ![idx].quantity = line.quantity + q2]
    ELSE res.err = "LimitExceeded" /\ res.cart = cart

C13_Step ==
  /\ Answers("addToCart", "LimitExceeded") => carts' = carts
  /\ Answers("addToCart", "ok") =>
       \A idx \in 1..Len(carts["u1"].items) :
         /\ carts'["u1"].items[idx].product = carts["u1"].items[idx].product
         /\ carts'["u1"].items[idx].price = carts["u1"].items[idx].price
         /\ carts'["u1"].items[idx].quantity >= carts["u1"].items[idx].quantity
         /\ carts'["u1"].items[idx].quantity > carts["u1"].items[idx].quantity
              => Len(carts'["u1"].items) = Len(carts["u1"].items)

C13_AddItemMerges == []C13_Function /\ [][C13_Step]_vars

C13_Witness ==
  /\ last = Response("addToCart", "ok", "u1", 0)
  /\ Len(carts["u1"].items) = 1
  /\ carts["u1"].items[1].quantity = MaxQty
  /\ carts["u1"].items[1].price = 10
  /\ products[carts["u1"].items[1].product].price = 20

\* C14: a cart never holds two lines of one product.
C14_NoDuplicateLines ==
  \A u \in Users : \A i, j \in 1..Len(carts[u].items) :
    i # j => carts[u].items[i].product # carts[u].items[j].product

C14_Witness ==
  /\ last = Response("addToCart", "ok", "u1", 0)
  /\ Len(carts["u1"].items) = 2
  /\ carts["u1"].items[2].quantity = MaxQty
  /\ carts["u1"].items[2].price = 10
  /\ products[carts["u1"].items[2].product].price = 20

\* C15: every stored cart has totalItems equal to the sum of its lines'
\* quantities and totalPrice equal to the sum of quantity x price over them.
C15_TotalsAgree ==
  \A u \in Users :
    /\ carts[u].totalItems = SumQuantity(carts[u].items)
    /\ carts[u].totalPrice = SumAmount(carts[u].items)

C15_Witness ==
  /\ last = Response("updateCartItem", "ok", "u1", 0)
  /\ Len(carts["u1"].items) = 2
  /\ carts["u1"].totalItems = 3
  /\ carts["u1"].totalPrice = 40

\* C16 as claimed: for every cart and every product, with a line in the cart
\* or not, updateItemQuantity(p, 0) succeeds as removeItem(p) does and leaves
\* the same cart.
C16_SameOutcomeAlways ==
  \A p \in Products :
    LET up == updateItemQuantity(carts["u1"], p, 0) IN
    up.err = "none" /\ up.cart = removeItem(carts["u1"], p)

\* C16 amended: for a product with a line in the cart updateItemQuantity(p, 0)
\* succeeds and leaves the cart removeItem(p) leaves, the cart without that
\* line; for a product with no line removeItem(p) leaves the cart as it is
\* while updateItemQuantity(p, 0) fails with NotFound, the cart unchanged.
C16_SameOutcomeOnLines ==
  LET cart == carts["u1"] IN
  \A p \in Products :
    LET up == updateItemQuantity(cart, p, 0)
        rm == removeItem(cart, p)
    IN
    IF IndexOf(cart.items, p) > 0
    THEN /\ up.err = "none"
         /\ up.cart = rm
         /\ IndexOf(rm.items, p) = 0
         /\ Len(rm.items) = Len(cart.items) - 1
    ELSE /\ up.err = "NotFound"
         /\ up.cart = cart
         /\ rm = cart

C16_Witness ==
  /\ last = Response("removeCartItem", "ok", "u1", 0)
  /\ Len(carts["u1"].items) = 1
  /\ \E p \in Products :
       /\ IndexOf(carts["u1"].items, p) = 0
       /\ updateItemQuantity(carts["u1"], p, 0).err = "NotFound"
       /\ removeItem(carts["u1"], p) = carts["u1"]

\* C17: updateCartItem on a product with a line in the cart: quantity 0
\* succeeds and removes the line; a quantity in 1..10 the product can supply
\* sets the line's quantity; a quantity above 10 is refused on the quantity
\* rule; on a product with no line a quantity in 1..10 fails with NotFound;
\* every refusal leaves the cart unchanged.
C17_UpdateCartItem ==
  LET cart == carts["u1"] IN
  \A p \in Products, q \in 0..(MaxPerItem + 1) :
    LET out == updateCartItemOutcome("u1", p, q)
        idx == IndexOf(cart.items, p)
        supplied == products[p].exists /\ products[p].isAvailable /\ products[p].stock >= q
    IN
    /\ out.kind # "ok" => out.cart = cart
    /\ q > MaxPerItem => out.kind \in {"LimitExceeded", "ValidationError"}
    /\ (idx > 0 /\ q = 0) =>
         out.kind = "ok" /\ out.cart.items = RemoveAt(cart.items, idx)
    /\ (idx > 0 /\ q \in 1..MaxPerItem /\ supplied) =>
         out.kind = "ok" /\ out.cart.items = [cart.items EXCEPT ![idx].quantity = q]
    /\ (cart.exists /\ idx = 0 /\ q \in 1..MaxPerItem /\ supplied) => out.kind = "NotFound"

\* C18: every order has item totals of price x quantity, subtotal the sum of
\* the item totals, shipping cost 150, tax 0, total amount subtotal + 150 and
\* a payment amount equal to the total amount; the order createOrder stores
\* has payment status pending and, on each item, the price its product has at
\* that moment, whatever price the cart line carried.
C18_Totals ==
  \A k \in 1..Len(orders) :
    LET o == orders[k] IN
    /\ \A i \in 1..Len(o.items) : o.items[i].total = o.items[i].price * o.items[i].quantity
    /\ o.subtotal = SumTotal(o.items)
    /\ o.shippingCost = 150
    /\ o.tax = 0
    /\ o.totalAmount = o.subtotal + 150
    /\ o.payAmount = o.totalAmount

C18_Step ==
  Len(orders') = Len(orders) + 1 =>
    LET o == orders'[Len(orders')] IN
    /\ o.payStatus = "pending"
    /\ Len(o.items) = Len(carts[o.user].items)
    /\ \A i \in 1..Len(o.items) :
         /\ o.items[i].product = carts[o.user].items[i].product
         /\ o.items[i].quantity = carts[o.user].items[i].quantity
         /\ o.items[i].price = products[o.items[i].product].price

C18_OrderTotals == []C18_Totals /\ [][C18_Step]_vars

C18_Witness ==
  /\ reqs["r1"].op = "createOrder" /\ reqs["r1"].pc = "stock"
  /\ reqs["r1"].cartItems[1].price = 10
  /\ orders[1].items[1].price = 20
  /\ orders[1].items[1].quantity = 2
  /\ orders[1].totalAmount = 190

\* C19: when a stock update of createOrder fails, the request answers with the
\* generic internal error and undoes nothing: the order it stored is still
\* stored, the stock taken for the lines before the failing one stays taken,
\* and the cart keeps its lines.
C19_Step ==
  \A r \in Reqs :
    (reqs[r].op = "createOrder" /\ reqs[r].pc = "stock" /\ reqs'[r].pc = "idle") =>
      /\ last' = Response("createOrder", "InternalError", reqs[r].user, reqs[r].oid)
      /\ Len(orders') = reqs[r].oid
      /\ orders'[reqs[r].oid] = reqs[r].doc
      /\ carts'[reqs[r].user].items = reqs[r].cartItems
      /\ [p \in Products |-> products'[p].stock]
           = StockLess(SubSeq(reqs[r].cartItems, 1, reqs[r].i - 1))

C19_NoRollback == [][C19_Step]_vars

C19_Witness ==
  /\ last = Response("createOrder", "InternalError", "u1", 1)
  /\ Len(orders) = 1
  /\ Len(orders[1].items) = 2
  /\ orders[1].items[1].quantity = 2
  /\ products[orders[1].items[1].product].stock = 0
  /\ products[orders[1].items[2].product].stock >= orders[1].items[2].quantity
  /\ Len(carts["u1"].items) = 2

\* C20: createOrder decides on the cart and the catalogue alone, whatever
\* checkout of the same user is in flight, and a request that passed stores its
\* order whatever orders are stored; so two interleaved checkouts of one user
\* leave two orders of the same cart and take the stock twice.
C20_Function ==
  \A u \in {"u1", "u2"} :
    createOrderError(u, FullAddress) = "none" <=> ~FailsValidation(u, FullAddress)

C20_Step ==
  \A r \in Reqs :
    (reqs[r].op = "createOrder" /\ reqs[r].pc = "create" /\ reqs'[r].pc = "stock")
      => orders' = Append(orders, reqs[r].doc)

C20_DoubleSubmit == []C20_Function /\ [][C20_Step]_vars

C20_Witness ==
  /\ Len(orders) = 2
  /\ orders[1].user = "u1" /\ orders[2].user = "u1"
  /\ orders[1].items = orders[2].items
  /\ Len(orders[1].items) = 2
  /\ orders[1].items[1].product = "A" /\ orders[1].items[1].quantity = 1
  /\ products["A"].stock = MaxStock - 2
  /\ products["B"].stock = MaxStock - 2
  /\ carts["u1"].items = <<>>
  /\ Quiet

\* C21: getRefundAmount is the order's totalAmount exactly when the order is
\* cancelled, paid and has no shippedAt, and 0 otherwise; it is 0 for every
\* order with shippedAt set.
C21_RefundAmount ==
  \A k \in 1..Len(orders) :
    LET o == orders[k] IN
    /\ getRefundAmount(o) =
         (IF o.orderStatus = "cancelled" /\ o.payStatus = "paid" /\ ~o.shippedAt
          THEN o.totalAmount ELSE 0)
    /\ o.shippedAt => getRefundAmount(o) = 0
    /\ (last.op = "getRefundAmount" /\ last.oid = k) =>
         (last.kind = "refund" <=>
            (o.orderStatus = "cancelled" /\ o.payStatus = "paid" /\ ~o.shippedAt))

C21_Witness ==
  /\ last = Response("getRefundAmount", "refund", "adm", 1)
  /\ orders[1].orderStatus = "cancelled"
  /\ orders[1].cancelledAt
  /\ orders[1].payStatus = "paid"
  /\ getRefundAmount(orders[1]) = orders[1].subtotal + ShippingCost

\* C22: a successful updateStatus to shipped sets shippedAt; to delivered sets
\* deliveredAt, paymentInfo.status = paid and paidAt; to cancelled sets
\* cancelledAt and cancellationReason = notes; to confirmed or processing it
\* changes none of shippedAt, deliveredAt, cancelledAt, cancellationReason and
\* paymentInfo.status.  The same holds of the order the updateOrderStatus
\* request stores.
C22_Effects(o, d, st) ==
  /\ st = "shipped" => d.shippedAt
  /\ st = "delivered" => d.deliveredAt /\ d.payStatus = "paid" /\ d.paidAt
  /\ st = "cancelled" => d.cancelledAt /\ d.cancellationReason \in Notes
  /\ st \in {"confirmed", "processing"} =>
       /\ d.shippedAt = o.shippedAt
       /\ d.deliveredAt = o.deliveredAt
       /\ d.cancelledAt = o.cancelledAt
       /\ d.cancellationReason = o.cancellationReason
       /\ d.payStatus = o.payStatus

C22_Function ==
  \A k \in 1..Len(orders), st \in Statuses, n \in Notes :
    LET res == updateStatus(orders[k], st, n) IN
    res.err = "none" =>
      /\ res.doc.orderStatus = st
      /\ C22_Effects(orders[k], res.doc, st)
      /\ st = "cancelled" => res.doc.cancellationReason = n

C22_Step ==
  \A r \in Reqs :
    Responds(r, "updateOrderStatus") =>
      /\ orders'[reqs[r].oid].orderStatus \in SpecTable(orders[reqs[r].oid].orderStatus)
      /\ C22_Effects(orders[reqs[r].oid], orders'[reqs[r].oid], orders'[reqs[r].oid].orderStatus)
      /\ orders'[reqs[r].oid].cancellationReason = reqs[r].doc.cancellationReason

C22_SideEffects == []C22_Function /\ [][C22_Step]_vars

C22_Witness ==
  /\ last = Response("updateOrderStatus", "ok", "adm", 1)
  /\ orders[1].orderStatus = "delivered"
  /\ orders[1].deliveredAt
  /\ orders[1].payStatus = "paid"
  /\ orders[1].paidAt
  /\ orders[1].shippedAt

\* C23: updateProductStock with operation add, subtract or set computes
\* newStock = stock + v, stock - v or v; when newStock < 0 it answers
\* NegativeStock and leaves stock and isAvailable as they were; otherwise it
\* stores stock = newStock and isAvailable = (newStock > 0).
C23_NewStock(stock, op, v) ==
  IF op = "add" THEN stock + v ELSE IF op = "subtract" THEN stock - v ELSE v

C23_Function ==
  \A p \in Products, op \in {"add", "subtract", "set"}, v \in StockInputs :
    products[p].exists =>
      LET n == C23_NewStock(products[p].stock, op, v)
          out == updateProductStockOutcome(p, op, v)
      IN IF n < 0
         THEN out.kind = "NegativeStock" /\ out.product = products[p]
         ELSE /\ out.kind = "ok"
              /\ out.product = [products[p] EXCEPT !.stock = n, !.isAvailable = n > 0]

C23_Step ==
  /\ (last'.op = "updateProductStock" /\ last'.kind = "NegativeStock") => products' = products
  /\ (last'.op = "updateProductStock" /\ last'.kind = "ok") =>
       \E p \in Products, op \in {"add", "subtract", "set"}, v \in StockInputs :
         /\ C23_NewStock(products[p].stock, op, v) >= 0
         /\ products' = [products EXCEPT
                           ![p].stock = C23_NewStock(products[p].stock, op, v),
                           ![p].isAvailable = C23_NewStock(products[p].stock, op, v) > 0]

C23_StockUpdate == []C23_Function /\ [][C23_Step]_vars

C23_Witness ==
  /\ last = Response("updateProductStock", "ok", "adm", 0)
  /\ products["A"].exists
  /\ products["A"].stock = 0
  /\ ~products["A"].isAvailable
  /\ products["B"].stock = MaxStock
  /\ products["B"].isAvailable

\* C24: once an order is stored, no product operation (price or name edit,
\* stock adjustment, deletion) and no cart operation changes its items, its
\* subtotal or its totalAmount.
C24_Step ==
  last'.op \in {"updateProduct", "updateProductStock", "deleteProduct",
                "addToCart", "updateCartItem", "removeCartItem", "clearCart"} =>
    /\ Len(orders') = Len(orders)
    /\ \A k \in 1..Len(orders) :
         /\ orders'[k].items = orders[k].items
         /\ orders'[k].subtotal = orders[k].subtotal
         /\ orders'[k].totalAmount = orders[k].totalAmount

C24_Totals ==
  \A k \in 1..Len(orders) :
    /\ orders[k].subtotal = SumTotal(orders[k].items)
    /\ orders[k].totalAmount = orders[k].subtotal + ShippingCost + Tax
    /\ \A i \in 1..Len(orders[k].items) :
         /\ orders[k].items[i].price = 10
         /\ orders[k].items[i].name = "fern"
         /\ orders[k].items[i].total = 10 * orders[k].items[i].quantity

C24_OrderHistory == []C24_Totals /\ [][C24_Step]_vars

C24_Witness ==
  /\ last = Response("updateProduct", "ok", "adm", 0)
  /\ Len(orders[1].items) = 2
  /\ orders[1].items[1].product = "A"
  /\ orders[1].items[1].price = 10
  /\ orders[1].items[1].name = "fern"
  /\ products["A"].exists
  /\ products["A"].price = 20
  /\ products["A"].name = "moss"
  /\ products["A"].stock = 0
  /\ ~products["B"].exists
  /\ carts["u1"].items = <<>>

\* C25: with addProductReview requests served one at a time, a product holds
\* at most one review per user, and a second review by the same user fails
\* with DuplicateReview leaving reviews and ratings unchanged; after every
\* successful insertion ratings.count is the number of reviews and
\* ratings.average times ratings.count is the sum of the stored ratings.
C25_Ratings ==
  \A p \in Products :
    LET product == products[p] IN
    /\ \A i, j \in 1..Len(product.reviews) :
         i # j => product.reviews[i].user # product.reviews[j].user
    /\ \A i \in 1..Len(product.reviews) : product.reviews[i].rating \in 1..5
    /\ product.ratings.count = Len(product.reviews)
    /\ product.ratings.average.num * product.ratings.count =
         SumRating(product.reviews) * product.ratings.average.den
    /\ \A u \in Users, h \in RatingInputs :
         (\E i \in 1..Len(product.reviews) : product.reviews[i].user = u)
           /\ h \in 2..10 /\ product.exists
           => addProductReviewOutcome(u, p, h) = [kind |-> "DuplicateReview", product |-> product]

C25_Step ==
  /\ (last'.op = "addProductReview" /\ last'.kind # "ok") => products' = products
  /\ (last'.op = "addProductReview" /\ last'.kind = "ok") =>
       \E p \in Products :
         /\ Len(products'[p].reviews) = Len(products[p].reviews) + 1
         /\ SubSeq(products'[p].reviews, 1, Len(products[p].reviews)) = products[p].reviews
         /\ products'[p].reviews[Len(products'[p].reviews)].user = last'.user
         /\ \A q \in Products \ {p} : products'[q] = products[q]

C25_OneReviewEach == []C25_Ratings /\ [][C25_Step]_vars

C25_Witness ==
  /\ last = Response("addProductReview", "DuplicateReview", "u1", 0)
  /\ Len(products["A"].reviews) = 2
  /\ products["A"].reviews[1] = [user |-> "u1", rating |-> 4]
  /\ products["A"].reviews[2] = [user |-> "u2", rating |-> 5]
  /\ products["A"].ratings = [average |-> Quotient(9, 2), count |-> 2]

\* C26: under any interleaving of cancel requests on one order (cancelOrder
\* and updateOrderStatus to cancelled), the stock of each ordered product is
\* restored at most once: it never exceeds the stock before the cancellations
\* plus the quantity the order holds of the product.
C26_RestoredOnce ==
  \A p \in Products :
    products[p].stock <= stockAtStart[p] + QtyIn(orders[1].items, p)

\* C27: with requests run one at a time and no stock edits, between requests
\* the stock of every product plus its ordered quantities over the orders
\* that are not cancelled equals the product's initial stock.
RECURSIVE OrderedQty(_, _)
OrderedQty(os, p) ==
  IF os = <<>> THEN 0
  ELSE (IF Head(os).orderStatus # "cancelled" THEN QtyIn(Head(os).items, p) ELSE 0)
       + OrderedQty(Tail(os), p)

C27_Conservation ==
  Quiet => \A p \in Products : products[p].stock + OrderedQty(orders, p) = MaxStock

\* C28: every stored order has getRefundAmount() = 0: an order is created
\* with payment pending, its payment becomes paid only in the step that makes
\* it delivered, a delivered order never changes status again, and so no
\* order is both cancelled and paid.
C28_State ==
  \A k \in 1..Len(orders) :
    /\ getRefundAmount(orders[k]) = 0
    /\ ~(orders[k].orderStatus = "cancelled" /\ orders[k].payStatus = "paid")
    /\ orders[k].payStatus = "paid" <=> orders[k].orderStatus = "delivered"
    /\ orders[k].payStatus \in {"pending", "paid"}

C28_Step ==
  /\ \A k \in 1..Len(orders) :
       /\ orders'[k].payStatus # orders[k].payStatus =>
            /\ orders'[k].payStatus = "paid"
            /\ orders[k].orderStatus # "delivered"
            /\ orders'[k].orderStatus = "delivered"
       /\ orders[k].orderStatus = "delivered" => orders'[k].orderStatus = "delivered"
  /\ \A k \in (Len(orders) + 1)..Len(orders') :
       orders'[k].payStatus = "pending" /\ orders'[k].orderStatus = "pending"

C28_NoRefundDue == []C28_State /\ [][C28_Step]_vars

C28_Witness ==
  /\ last = Response("updateOrderStatus", "InvalidTransition", "adm", 1)
  /\ orders[1].orderStatus = "delivered"
  /\ orders[1].payStatus = "paid"
  /\ orders[1].totalAmount > 0
  /\ getRefundAmount(orders[1]) = 0

\* C29: after a successful addToCart for product p the quantity of p's cart
\* line (the quantity it had plus the quantity added) is at most the stock of
\* p the request read.
C29_Function ==
  \A u \in Users, p \in Products, q \in CartQtyInputs :
    addToCartOutcome(u, p, q).kind = "ok" =>
      LineQuantityOf(addToCartOutcome(u, p, q).cart, p) <= products[p].stock

C29_Step ==
  (Quiet /\ Quiet' /\ last'.op = "addToCart" /\ last'.kind = "ok") =>
    \A p \in Products :
      LineQuantityOf(carts'[last'.user], p) # LineQuantityOf(carts[last'.user], p) =>
        LineQuantityOf(carts'[last'.user], p) <= products[p].stock

C29_LineWithinStock == []C29_Function /\ [][C29_Step]_vars

\* C30: validateCart is idempotent: for any cart and any product state, a
\* second run with nothing changed in between answers isValid = true with no
\* issues and leaves the cart as the first run left it.
C30_Function ==
  \A u \in Users :
    LET first == validateCartOn(carts[u])
        second == validateCartOn(first.cart)
    IN /\ second.kind = "ok"
       /\ second.isValid
       /\ second.issues = <<>>
       /\ second.cart = first.cart

C30_Step ==
  (Quiet /\ Quiet' /\ last.op = "validateCart" /\ last'.op = "validateCart") =>
    last'.kind = "valid" /\ carts' = carts

C30_Idempotent == []C30_Function /\ [][C30_Step]_vars

====
